---- MODULE Spec2Model ----
(***************************************************************************)
(* The escrow / vacancy protocol of the fill11 match-booking backend.      *)
(*                                                                         *)
(* Every HTTP handler of apps/matches/views.py runs under Django's         *)
(* autocommit: settings.py sets no ATOMIC_REQUESTS and no handler opens    *)
(* transaction.atomic(), so each ORM call is its own committed statement.  *)
(* A handler is therefore a little process: one step per ORM statement,    *)
(* working on the in-memory copies (model instances) it read earlier.      *)
(* Several handlers may be in flight at once (one per worker slot), and a  *)
(* handler may be aborted between two statements (an unhandled exception,  *)
(* a killed worker): what it has written stays written.                    *)
(***************************************************************************)
EXTENDS Integers, Sequences, FiniteSets, TLC

\* ------------------------------------------------------------------ bounds
\* Requests begun in one behaviour.
MaxRequests == 3
\* The clock runs from 0 to MaxNow.
MaxNow == 2
\* Largest count_needed of a posted vacancy.
MaxCount == 2

\* ---------------------------------------------------------------- universe
Users == {"captain", "alice", "bob"}
Matches == {"m1", "m2"}
\* Worker slots: the requests that can be in flight together.
Slots == {1, 2}
\* request.data.get('vacancy_id') of a body without the key.
NoVacancy == 0

MatchStatuses == {"PENDING", "CONFIRMED", "ONGOING", "COMPLETED", "CANCELLED"}
EscrowStatuses == {"HELD", "RELEASED", "REFUNDED"}
GROUND_STATUS_CHOICES == {"PENDING", "SECURED", "BOOKED"}
\* The deposit of the join-request flow (deposit_amount = 250.00).
deposit_amount == 250

\* Match.captain: both matches were created by the same captain.
captain(m) == "captain"
\* Match.max_join_allowed, the overbooking ceiling of the scenario's matches.
max_join_allowed(m) == 1
\* Match.price_per_player of the scenario's matches.
price_per_player(m) == 400
\* The scheduled start of a match on the model's clock.
start_time(m) == 1

\* The "players" lists a scorecard body may carry.  numeric = FALSE stands for
\* a runs/wickets/catches value int() cannot parse; "nobody" is a user_id that
\* names no user.
AliceItem == [user_id |-> "alice", numeric |-> TRUE, runs |-> 30, wickets |-> 2, catches |-> 1]
BobItem == [user_id |-> "bob", numeric |-> TRUE, runs |-> 5, wickets |-> 0, catches |-> 0]
NobodyItem == [user_id |-> "nobody", numeric |-> TRUE, runs |-> 1, wickets |-> 1, catches |-> 1]
BadItem == [user_id |-> "bob", numeric |-> FALSE, runs |-> 0, wickets |-> 0, catches |-> 0]

Payloads ==
    { << >>, <<AliceItem>>, <<NobodyItem, BobItem>>, <<AliceItem, BadItem>> }

WinningTeams == {"Team A"}

VARIABLES
    now,            \* timezone.now()
    matches,        \* Match rows: status, spots_filled, ground_status, is_cancelled
    vacancies,      \* Vacancy rows, by id (a sequence: ids are 1..Len)
    escrows,        \* EscrowTransaction rows, by id
    match_players,  \* MatchPlayer rows: a set, unique on (match, player)
    join_requests,  \* MatchJoinRequest rows, by id
    transactions,   \* Transaction rows, by id
    scorecards,     \* MatchScorecard: one per match, or none
    player_stats,   \* PlayerMatchStat rows: a set, unique on (match, user)
    users,          \* User rows: the cumulative totals
    ground_checkins, \* GroundCheckin rows, by id: the check-in log
    req,            \* the request each worker slot is handling
    nreq            \* requests begun so far

tables == <<matches, vacancies, escrows, match_players, join_requests,
            transactions, scorecards, player_stats, users, ground_checkins>>
vars == <<now, matches, vacancies, escrows, match_players, join_requests,
          transactions, scorecards, player_stats, users, ground_checkins,
          req, nreq>>

\* The database as one value: what a request saw when it began.
DB == [matches |-> matches, vacancies |-> vacancies, escrows |-> escrows,
       match_players |-> match_players, join_requests |-> join_requests,
       transactions |-> transactions, scorecards |-> scorecards,
       player_stats |-> player_stats, users |-> users,
       ground_checkins |-> ground_checkins]

Idle == [op |-> "idle", pc |-> "idle"]

InFlight(r) == req[r].op # "idle"
Running(r) == req[r].pc \notin {"idle", "done"}
Quiescent == \A r \in Slots : ~InFlight(r)

\* A new request takes the lowest free slot.
CanBegin(r) ==
    /\ ~InFlight(r)
    /\ \A q \in Slots : q < r => InFlight(q)
    /\ nreq < MaxRequests

\* A finished request: its response code, kept until the worker returns.
Done(rq, code) == [rq EXCEPT !.pc = "done", !.code = code]

\* What every request record starts with.
Request(op, pc, u) ==
    [op |-> op, pc |-> pc, code |-> 0, user |-> u, pre |-> DB]

\* ------------------------------------------------------------------- Init
NoScorecard == "none"

\* A match as MatchSerializer creates it, with ground status g.
NewMatch(g) ==
    [status |-> "PENDING", spots_filled |-> 0, ground_status |-> g,
     is_cancelled |-> FALSE]

\* Every table but the matches.
InitRows ==
    /\ vacancies = << [match |-> "m1", count_needed |-> 2, cost_per_head |-> 200,
                       status |-> "OPEN", capacity |-> 2, claimed |-> 0],
                      [match |-> "m2", count_needed |-> 1, cost_per_head |-> 500,
                       status |-> "OPEN", capacity |-> 1, claimed |-> 0] >>
    /\ escrows = << >>
    /\ match_players = {}
    /\ transactions = << >>
    /\ scorecards = [m \in Matches |-> NoScorecard]
    /\ player_stats = {}
    /\ users = [u \in Users |->
                  [total_runs |-> 0, total_wickets |-> 0, matches_played |-> 0,
                   wallet_balance |-> 0]]
    /\ ground_checkins = << >>

InitTables ==
    /\ matches = [m \in Matches |-> NewMatch("PENDING")]
    /\ InitRows

InitRun ==
    /\ now = 0
    /\ req = [r \in Slots |-> Idle]
    /\ nreq = 0

Init ==
    /\ InitTables
    /\ join_requests = << >>
    /\ InitRun

\* What the payment gateway does with an order: it issues one, it raises, or
\* the razorpay package is not installed.
Gateways == {"ok", "error", "unavailable"}

\* An order id that stays None when the gateway fails.
OrderIdOrNone(gateway, m, u) ==
    IF gateway = "ok" THEN "order_" \o m \o "_" \o u ELSE ""

\* razorpay_order_id (views.py 146-173): the gateway's id, or the local
\* f'test_order_{match.id}_{user.user_id}' when the call raises or the
\* package is missing.
OrderId(gateway, m, u) ==
    IF gateway = "ok" THEN "order_" \o m \o "_" \o u
    ELSE "test_order_" \o m \o "_" \o u

\* A join request as MatchViewSet.join stores it.
PendingRequest(m, u) ==
    [match |-> m, player |-> u, status |-> "PENDING", deposit_paid |-> deposit_amount,
     razorpay_order_id |-> OrderId("unavailable", m, u)]

\* The same database after alice and bob have each sent a join request
\* (POST /matches/m1/join/) that the captain has not answered yet.
InitFill ==
    /\ InitTables
    /\ join_requests = << PendingRequest("m1", "alice"), PendingRequest("m1", "bob") >>
    /\ InitRun

\* The database when the ground of m1 is in any of its statuses (the
\* booking desk sets BOOKED through the admin site).
InitGps ==
    /\ \E g \in GROUND_STATUS_CHOICES :
          matches = [m \in Matches |->
                        NewMatch(IF m = "m1" THEN g ELSE "PENDING")]
    /\ InitRows
    /\ join_requests = << >>
    /\ InitRun

\* -------------------------------------------------------------- get_object
\* MatchViewSet.get_queryset: the match is found only under the caller's
\* ?status= filter (default PENDING) and while its date has not passed.
get_object(m, status_filter) ==
    /\ matches[m].status = status_filter
    /\ start_time(m) >= now

\* check_in_location of a player who never sent coordinates (default=dict):
\* a position record with nothing given.
NoLocation == [given |-> FALSE, numeric |-> FALSE, lat |-> 0]

\* A new MatchPlayer row (has_checked_in defaults to False).
MatchPlayer(m, u, amount) ==
    [match |-> m, player |-> u, final_amount_paid |-> amount,
     has_checked_in |-> FALSE, check_in_location |-> NoLocation]

\* MatchPlayer.objects.filter(match=m, player=u): at most one row, the pair
\* is unique_together.
PlayerRows(m, u) == {p \in match_players : p.match = m /\ p.player = u}

\* Match.can_accept_more_players, on a match instance.
can_accept_more_players(m, match) ==
    match.spots_filled < max_join_allowed(m)

\* -------------------------------------------------------------------- join
\* MatchJoinRequest.objects.filter(match=m, player=u): at most one row, the
\* pair is unique_together.
RequestsOf(m, u) ==
    {i \in DOMAIN join_requests :
        join_requests[i].match = m /\ join_requests[i].player = u}

\* match = self.get_object(); match.can_accept_more_players()
BeginJoin(r, u, m, f, gateway) ==
    /\ CanBegin(r)
    /\ nreq' = nreq + 1
    /\ LET rq == Request("join", "jn_find_existing", u) @@
                 [match |-> m, gateway |-> gateway]
       IN  req' = [req EXCEPT ![r] =
                     IF ~get_object(m, f) THEN Done(rq, 404)
                     ELSE IF ~can_accept_more_players(m, matches[m]) THEN Done(rq, 400)
                     ELSE rq]
    /\ UNCHANGED <<now, tables>>

\* existing_request = ....first(); the PENDING / APPROVED and captain
\* checks; the order id
JnFindExisting(r) ==
    /\ req[r].pc = "jn_find_existing"
    /\ LET rq == req[r]
           blocked == \E i \in RequestsOf(rq.match, rq.user) :
                         join_requests[i].status \in {"PENDING", "APPROVED"}
       IN  req' = [req EXCEPT ![r] =
                     IF blocked THEN Done(rq, 400)
                     ELSE IF captain(rq.match) = rq.user THEN Done(rq, 400)
                     ELSE [rq EXCEPT !.pc = "jn_create"] @@
                          [razorpay_order_id |->
                              OrderId(rq.gateway, rq.match, rq.user)]]
    /\ UNCHANGED <<now, tables, nreq>>

\* A create on a table without the unique (match, player) constraint.
JnCreateUnchecked(r) ==
    /\ req[r].pc = "jn_create"
    /\ join_requests' =
          Append(join_requests,
                 [PendingRequest(req[r].match, req[r].user)
                     EXCEPT !.razorpay_order_id = req[r].razorpay_order_id])
    /\ req' = [req EXCEPT ![r] = Done(req[r], 201)]
    /\ UNCHANGED <<now, matches, vacancies, escrows, match_players, transactions,
                   scorecards, player_stats, users, ground_checkins, nreq>>

\* MatchJoinRequest.objects.create(..., status='PENDING'): IntegrityError on
\* a second row for the same (match, player); 201
JnCreate(r) ==
    /\ req[r].pc = "jn_create"
    /\ IF RequestsOf(req[r].match, req[r].user) # {}
       THEN /\ req' = [req EXCEPT ![r] = Done(req[r], 500)]
            /\ UNCHANGED join_requests
       ELSE /\ join_requests' =
                  Append(join_requests,
                         [PendingRequest(req[r].match, req[r].user)
                             EXCEPT !.razorpay_order_id = req[r].razorpay_order_id])
            /\ req' = [req EXCEPT ![r] = Done(req[r], 201)]
    /\ UNCHANGED <<now, matches, vacancies, escrows, match_players, transactions,
                   scorecards, player_stats, users, ground_checkins, nreq>>

join(r, U, M) ==
    \/ \E u \in U, m \in M, f \in MatchStatuses, gateway \in Gateways :
          BeginJoin(r, u, m, f, gateway)
    \/ JnFindExisting(r)
    \/ JnCreate(r)

\* ------------------------------------------------------------ join_vacancy
\* The escrow row join_vacancy creates (views.py 244-249).
HeldEscrow(m, u, amount) ==
    [match |-> m, payer |-> u, amount |-> amount, status |-> "HELD"]

\* A claim that forgets the FILLED transition.
ClaimSlotStaysOpen(v) ==
    [count_needed |-> v.count_needed - 1, status |-> v.status]

\* The vacancy instance after a claim: count_needed -= 1, FILLED at zero
\* (views.py 262-264).  v is the in-memory copy [count_needed, status].
ClaimSlot(v) ==
    LET c == v.count_needed - 1
    IN  [count_needed |-> c, status |-> IF c <= 0 THEN "FILLED" ELSE v.status]

\* match = self.get_object(); vacancy_id = request.data.get('vacancy_id')
BeginJoinVacancy(r, u, m, vid, f) ==
    /\ CanBegin(r)
    /\ nreq' = nreq + 1
    /\ LET rq == Request("join_vacancy", "jv_get_vacancy", u) @@
                 [match |-> m, vacancy_id |-> vid,
                  spots_filled |-> matches[m].spots_filled]
       IN  req' = [req EXCEPT ![r] =
                     IF ~get_object(m, f) THEN Done(rq, 404)
                     ELSE IF vid = NoVacancy THEN Done(rq, 400)
                     ELSE rq]
    /\ UNCHANGED <<now, tables>>

\* A lookup that skips the OPEN check.
JvGetVacancyUnchecked(r) ==
    /\ req[r].pc = "jv_get_vacancy"
    /\ LET rq == req[r]
           vid == rq.vacancy_id
           found == vid \in DOMAIN vacancies /\ vacancies[vid].match = rq.match
       IN  req' = [req EXCEPT ![r] =
                     IF ~found THEN Done(rq, 404)
                     ELSE [rq EXCEPT !.pc = "jv_create_escrow"] @@
                          [vacancy |-> [count_needed |-> vacancies[vid].count_needed,
                                        status |-> vacancies[vid].status],
                           cost_per_head |-> vacancies[vid].cost_per_head]]
    /\ UNCHANGED <<now, tables, nreq>>

\* Vacancy.objects.get(id=vacancy_id, match=match), then the OPEN check.
JvGetVacancy(r) ==
    /\ req[r].pc = "jv_get_vacancy"
    /\ LET rq == req[r]
           vid == rq.vacancy_id
           found == vid \in DOMAIN vacancies /\ vacancies[vid].match = rq.match
       IN  req' = [req EXCEPT ![r] =
                     IF ~found THEN Done(rq, 404)
                     ELSE IF vacancies[vid].status # "OPEN"
                             \/ vacancies[vid].count_needed <= 0
                          THEN Done(rq, 400)
                     ELSE [rq EXCEPT !.pc = "jv_create_escrow"] @@
                          [vacancy |-> [count_needed |-> vacancies[vid].count_needed,
                                        status |-> vacancies[vid].status],
                           cost_per_head |-> vacancies[vid].cost_per_head]]
    /\ UNCHANGED <<now, tables, nreq>>

\* EscrowTransaction.objects.create(..., status='HELD')
JvCreateEscrow(r) ==
    /\ req[r].pc = "jv_create_escrow"
    /\ escrows' = Append(escrows,
                         HeldEscrow(req[r].match, req[r].user, req[r].cost_per_head))
    /\ req' = [req EXCEPT ![r] = [req[r] EXCEPT !.pc = "jv_get_or_create_player"] @@
                                 [escrow_id |-> Len(escrows) + 1]]
    /\ UNCHANGED <<now, matches, vacancies, match_players, join_requests,
                   transactions, scorecards, player_stats, users, nreq, ground_checkins>>

\* MatchPlayer.objects.get_or_create(match=match, player=user, ...): the
\* unique (match, player) constraint makes it one decision.
JvGetOrCreatePlayer(r) ==
    /\ req[r].pc = "jv_get_or_create_player"
    /\ LET created == PlayerRows(req[r].match, req[r].user) = {}
       IN  /\ match_players' =
                IF created
                THEN match_players \cup
                     {MatchPlayer(req[r].match, req[r].user, req[r].cost_per_head)}
                ELSE match_players
           /\ req' = [req EXCEPT ![r].pc =
                         IF created THEN "jv_save_match" ELSE "jv_save_vacancy"]
    /\ UNCHANGED <<now, matches, vacancies, escrows, join_requests,
                   transactions, scorecards, player_stats, users, nreq, ground_checkins>>

\* if created: match.spots_filled += 1; match.save(update_fields=['spots_filled'])
JvSaveMatch(r) ==
    /\ req[r].pc = "jv_save_match"
    /\ matches' = [matches EXCEPT ![req[r].match].spots_filled =
                                     req[r].spots_filled + 1]
    /\ req' = [req EXCEPT ![r].pc = "jv_save_vacancy"]
    /\ UNCHANGED <<now, vacancies, escrows, match_players, join_requests,
                   transactions, scorecards, player_stats, users, nreq, ground_checkins>>

\* vacancy.count_needed -= 1; ...; vacancy.save(update_fields=[...]); 201
JvSaveVacancy(r) ==
    /\ req[r].pc = "jv_save_vacancy"
    /\ LET vid == req[r].vacancy_id
           v == ClaimSlot(req[r].vacancy)
       IN  vacancies' = [vacancies EXCEPT ![vid].count_needed = v.count_needed,
                                          ![vid].status = v.status,
                                          ![vid].claimed = @ + 1]
    /\ req' = [req EXCEPT ![r] = Done(req[r], 201)]
    /\ UNCHANGED <<now, matches, escrows, match_players, join_requests,
                   transactions, scorecards, player_stats, users, nreq, ground_checkins>>

join_vacancy(r, U, M) ==
    \/ \E u \in U, m \in M, f \in MatchStatuses,
          vid \in {NoVacancy} \cup (1..Len(vacancies) + 1) :
            BeginJoinVacancy(r, u, m, vid, f)
    \/ JvGetVacancy(r)
    \/ JvCreateEscrow(r)
    \/ JvGetOrCreatePlayer(r)
    \/ JvSaveMatch(r)
    \/ JvSaveVacancy(r)

\* ------------------------------------------------------------- add_vacancy
\* VacancySerializer.validate_count_needed / validate_cost_per_head
ValidVacancy(count_needed, cost_per_head) ==
    count_needed >= 1 /\ cost_per_head >= 0

\* serializer.save(match=match, status='OPEN').  capacity and claimed are
\* history: the count the vacancy was posted with, and the join_vacancy
\* requests answered 201 on it.
OpenVacancy(m, count_needed, cost_per_head) ==
    [match |-> m, count_needed |-> count_needed, cost_per_head |-> cost_per_head,
     status |-> "OPEN", capacity |-> count_needed, claimed |-> 0]

add_vacancy(r, u, m, f, count_needed, cost_per_head) ==
    /\ CanBegin(r)
    /\ nreq' = nreq + 1
    /\ LET rq == Request("add_vacancy", "done", u) @@
                 [match |-> m, count_needed |-> count_needed,
                  cost_per_head |-> cost_per_head]
           code == IF ~get_object(m, f) THEN 404
                   ELSE IF captain(m) # u THEN 403
                   ELSE IF ~ValidVacancy(count_needed, cost_per_head) THEN 400
                   ELSE 201
       IN  /\ req' = [req EXCEPT ![r] = Done(rq, code)]
           /\ vacancies' = IF code = 201
                           THEN Append(vacancies, OpenVacancy(m, count_needed, cost_per_head))
                           ELSE vacancies
    /\ UNCHANGED <<now, matches, escrows, match_players, join_requests,
                   transactions, scorecards, player_stats, users, ground_checkins>>

\* ---------------------------------------------------- approve_join_request
\* The rows approve_join_request creates (views.py 485-499).
DepositTransaction(jr) ==
    [user |-> jr.player, match |-> jr.match, amount |-> jr.deposit_paid,
     type |-> "DEPOSIT", is_successful |-> TRUE]

\* join_request = MatchJoinRequest.objects.get(id=request_id)
BeginApprove(r, u, id) ==
    /\ CanBegin(r)
    /\ nreq' = nreq + 1
    /\ LET rq == Request("approve_join_request", "ap_get_match", u) @@
                 [request_id |-> id]
       IN  req' = [req EXCEPT ![r] =
                     IF id \notin DOMAIN join_requests THEN Done(rq, 404)
                     ELSE rq @@ [join_request |-> join_requests[id]]]
    /\ UNCHANGED <<now, tables>>

\* join_request.match: the match row is fetched on first use and the same
\* instance serves the three checks and the later save.
ApGetMatch(r) ==
    /\ req[r].pc = "ap_get_match"
    /\ LET rq == req[r]
           m == rq.join_request.match
           match == matches[m]
       IN  req' = [req EXCEPT ![r] =
                     IF captain(m) # rq.user THEN Done(rq, 403)
                     ELSE IF rq.join_request.status # "PENDING" THEN Done(rq, 400)
                     ELSE IF ~can_accept_more_players(m, match) THEN Done(rq, 400)
                     ELSE [rq EXCEPT !.pc = "ap_save_request"] @@ [match |-> match]]
    /\ UNCHANGED <<now, tables, nreq>>

\* join_request.status = 'APPROVED'; join_request.save()
ApSaveRequest(r) ==
    /\ req[r].pc = "ap_save_request"
    /\ join_requests' = [join_requests EXCEPT ![req[r].request_id] =
                            [req[r].join_request EXCEPT !.status = "APPROVED"]]
    /\ req' = [req EXCEPT ![r].pc = "ap_save_match"]
    /\ UNCHANGED <<now, matches, vacancies, escrows, match_players,
                   transactions, scorecards, player_stats, users, nreq, ground_checkins>>

\* match.spots_filled += 1; match.save(): every field of the instance is
\* written back.
ApSaveMatch(r) ==
    /\ req[r].pc = "ap_save_match"
    /\ matches' = [matches EXCEPT ![req[r].join_request.match] =
                      [req[r].match EXCEPT !.spots_filled = @ + 1]]
    /\ req' = [req EXCEPT ![r].pc = "ap_create_player"]
    /\ UNCHANGED <<now, vacancies, escrows, match_players, join_requests,
                   transactions, scorecards, player_stats, users, nreq, ground_checkins>>

\* MatchPlayer.objects.create(...): IntegrityError on a second row for the
\* same (match, player).
ApCreatePlayer(r) ==
    /\ req[r].pc = "ap_create_player"
    /\ LET jr == req[r].join_request
       IN  IF PlayerRows(jr.match, jr.player) # {}
           THEN /\ req' = [req EXCEPT ![r] = Done(req[r], 500)]
                /\ UNCHANGED match_players
           ELSE /\ match_players' = match_players \cup
                      {MatchPlayer(jr.match, jr.player,
                                   price_per_player(jr.match) - jr.deposit_paid)}
                /\ req' = [req EXCEPT ![r].pc = "ap_create_transaction"]
    /\ UNCHANGED <<now, matches, vacancies, escrows, join_requests,
                   transactions, scorecards, player_stats, users, nreq, ground_checkins>>

\* Transaction.objects.create(type='DEPOSIT', ...); 200
ApCreateTransaction(r) ==
    /\ req[r].pc = "ap_create_transaction"
    /\ transactions' = Append(transactions, DepositTransaction(req[r].join_request))
    /\ req' = [req EXCEPT ![r] = Done(req[r], 200)]
    /\ UNCHANGED <<now, matches, vacancies, escrows, match_players, join_requests,
                   scorecards, player_stats, users, nreq, ground_checkins>>

approve_join_request(r, U) ==
    \/ \E u \in U, id \in 1..Len(join_requests) + 1 : BeginApprove(r, u, id)
    \/ ApGetMatch(r)
    \/ ApSaveRequest(r)
    \/ ApSaveMatch(r)
    \/ ApCreatePlayer(r)
    \/ ApCreateTransaction(r)

\* -------------------------------------------------------- submit_scorecard
\* A bulk release that drops the status='HELD' filter.
ReleaseOfMatch(es, m) ==
    [i \in DOMAIN es |->
        IF es[i].match = m THEN [es[i] EXCEPT !.status = "RELEASED"] ELSE es[i]]

\* A bulk release that drops the match=match filter.
ReleaseAllHeld(es, m) ==
    [i \in DOMAIN es |->
        IF es[i].status = "HELD" THEN [es[i] EXCEPT !.status = "RELEASED"] ELSE es[i]]

\* EscrowTransaction.objects.filter(match=match, status='HELD')
\*     .update(status='RELEASED')
ReleaseHeld(es, m) ==
    [i \in DOMAIN es |->
        IF es[i].match = m /\ es[i].status = "HELD"
        THEN [es[i] EXCEPT !.status = "RELEASED"]
        ELSE es[i]]

\* Where the loop over players_payload goes after item i.
ScAfter(rq, i) ==
    IF i < Len(rq.players)
    THEN [rq EXCEPT !.pc = "sc_item", !.i = i + 1]
    ELSE [rq EXCEPT !.pc = "sc_status"]

\* match = self.get_object(); the captain check
BeginSubmitScorecard(r, u, m, f, w, players) ==
    /\ CanBegin(r)
    /\ nreq' = nreq + 1
    /\ LET rq == Request("submit_scorecard", "sc_scorecard", u) @@
                 [match |-> m, status |-> matches[m].status,
                  winning_team_name |-> w, players |-> players, i |-> 0]
       IN  req' = [req EXCEPT ![r] =
                     IF ~get_object(m, f) THEN Done(rq, 404)
                     ELSE IF captain(m) # u THEN Done(rq, 403)
                     ELSE rq]
    /\ UNCHANGED <<now, tables>>

\* MatchScorecard.objects.update_or_create(match=match, defaults=...)
ScScorecard(r) ==
    /\ req[r].pc = "sc_scorecard"
    /\ scorecards' = [scorecards EXCEPT ![req[r].match] = req[r].winning_team_name]
    /\ req' = [req EXCEPT ![r] = ScAfter(req[r], 0)]
    /\ UNCHANGED <<now, matches, vacancies, escrows, match_players, join_requests,
                   transactions, player_stats, users, nreq, ground_checkins>>

\* One item of the loop, up to the int() conversions: an unknown user is
\* skipped, a value int() cannot parse raises ValueError out of the handler.
ScItem(r) ==
    /\ req[r].pc = "sc_item"
    /\ LET rq == req[r]
           item == rq.players[rq.i]
       IN  req' = [req EXCEPT ![r] =
                     IF item.user_id \notin Users THEN ScAfter(rq, rq.i)
                     ELSE IF ~item.numeric THEN Done(rq, 500)
                     ELSE [rq EXCEPT !.pc = "sc_stat"] @@
                          [stat_user |-> users[item.user_id]]]
    /\ UNCHANGED <<now, tables, nreq>>

\* PlayerMatchStat.objects.update_or_create(match=match, user=user, defaults=...)
ScStat(r) ==
    /\ req[r].pc = "sc_stat"
    /\ LET rq == req[r]
           item == rq.players[rq.i]
           old == {s \in player_stats :
                     s.match = rq.match /\ s.user = item.user_id}
       IN  /\ player_stats' =
                (player_stats \ old) \cup
                {[match |-> rq.match, user |-> item.user_id, runs |-> item.runs,
                  wickets |-> item.wickets, catches |-> item.catches]}
           /\ req' = [req EXCEPT ![r] = [rq EXCEPT !.pc = "sc_save_user"] @@
                                        [created |-> old = {}]]
    /\ UNCHANGED <<now, matches, vacancies, escrows, match_players, join_requests,
                   transactions, scorecards, users, nreq, ground_checkins>>

\* user.total_runs += runs; ...; user.save(update_fields=[...])
ScSaveUser(r) ==
    /\ req[r].pc = "sc_save_user"
    /\ LET rq == req[r]
           item == rq.players[rq.i]
           u == rq.stat_user
       IN  /\ users' = [users EXCEPT
                          ![item.user_id].total_runs = u.total_runs + item.runs,
                          ![item.user_id].total_wickets = u.total_wickets + item.wickets,
                          ![item.user_id].matches_played =
                              u.matches_played + (IF rq.created THEN 1 ELSE 0)]
           /\ req' = [req EXCEPT ![r] = ScAfter(rq, rq.i)]
    /\ UNCHANGED <<now, matches, vacancies, escrows, match_players, join_requests,
                   transactions, scorecards, player_stats, nreq, ground_checkins>>

\* if match.status != 'COMPLETED': ...; match.save(update_fields=['status'])
ScStatus(r) ==
    /\ req[r].pc = "sc_status"
    /\ matches' = IF req[r].status # "COMPLETED"
                  THEN [matches EXCEPT ![req[r].match].status = "COMPLETED"]
                  ELSE matches
    /\ req' = [req EXCEPT ![r].pc = "sc_release"]
    /\ UNCHANGED <<now, vacancies, escrows, match_players, join_requests,
                   transactions, scorecards, player_stats, users, nreq, ground_checkins>>

\* Release all held escrows for this match; 200
ScRelease(r) ==
    /\ req[r].pc = "sc_release"
    /\ escrows' = ReleaseHeld(escrows, req[r].match)
    /\ req' = [req EXCEPT ![r] = Done(req[r], 200)]
    /\ UNCHANGED <<now, matches, vacancies, match_players, join_requests,
                   transactions, scorecards, player_stats, users, nreq, ground_checkins>>

submit_scorecard(r, U, M) ==
    \/ \E u \in U, m \in M, f \in MatchStatuses, w \in WinningTeams,
          players \in Payloads :
            BeginSubmitScorecard(r, u, m, f, w, players)
    \/ ScScorecard(r)
    \/ ScItem(r)
    \/ ScStat(r)
    \/ ScSaveUser(r)
    \/ ScStatus(r)
    \/ ScRelease(r)

\* ------------------------------------------------- admin: cancel_matches
\* A cancellation that still accepts a match at its start time.
CancelFromStart(ms, selected, t) ==
    [m \in Matches |->
        IF m \in selected /\ start_time(m) >= t /\ ~ms[m].is_cancelled
        THEN [ms[m] EXCEPT !.is_cancelled = TRUE]
        ELSE ms[m]]

\* queryset.filter(start_time__gt=timezone.now(), is_cancelled=False)
\*     .update(is_cancelled=True): one UPDATE over the selected matches.
CancelUpcoming(ms, selected, t) ==
    [m \in Matches |->
        IF m \in selected /\ start_time(m) > t /\ ~ms[m].is_cancelled
        THEN [ms[m] EXCEPT !.is_cancelled = TRUE]
        ELSE ms[m]]

cancel_matches(r, selected) ==
    /\ CanBegin(r)
    /\ nreq' = nreq + 1
    /\ matches' = CancelUpcoming(matches, selected, now)
    /\ req' = [req EXCEPT ![r] =
                 Done(Request("cancel_matches", "done", "admin") @@
                      [selected |-> selected], 200)]
    /\ UNCHANGED <<now, vacancies, escrows, match_players, join_requests,
                   transactions, scorecards, player_stats, users, ground_checkins>>

\* ----------------------------- admin: release_payments / refund_payments
\* EscrowTransaction.release_payment / refund_payment.  Their bodies are
\* not part of the sources at hand: they follow the documented contract
\* (only from HELD; a repeat is a no-op; the opposite terminal state is an
\* InvalidTransition error).
release_payment(e) ==
    IF e.status = "HELD" THEN [e EXCEPT !.status = "RELEASED"] ELSE e

refund_payment(e) ==
    IF e.status = "HELD" THEN [e EXCEPT !.status = "REFUNDED"] ELSE e

InvalidTransition(e, target) ==
    e.status \notin {"HELD", target}

\* The selected rows whatever their status.
RECURSIVE SelectedOf(_, _, _)
SelectedOf(es, selected, n) ==
    IF n = 0 THEN << >>
    ELSE IF n \in selected
         THEN <<n>> \o SelectedOf(es, selected, n - 1)
         ELSE SelectedOf(es, selected, n - 1)

\* queryset.filter(status='HELD'): the ids of the selected rows that are
\* HELD, in the admin's ordering (-created_at: newest first).
RECURSIVE HeldOf(_, _, _)
HeldOf(es, selected, n) ==
    IF n = 0 THEN << >>
    ELSE IF n \in selected /\ es[n].status = "HELD"
         THEN <<n>> \o HeldOf(es, selected, n - 1)
         ELSE HeldOf(es, selected, n - 1)

\* held_transactions = queryset.filter(status='HELD'); the loop fetches
\* the rows when it starts.
BeginAdminEscrow(r, action, selected) ==
    /\ CanBegin(r)
    /\ nreq' = nreq + 1
    /\ req' = [req EXCEPT ![r] =
                 Request(action, "pay_next", "admin") @@
                 [selected |-> selected,
                  todo |-> HeldOf(escrows, selected, Len(escrows)), count |-> 0]]
    /\ UNCHANGED <<now, tables>>

\* for transaction in held_transactions: transaction.release_payment() /
\* transaction.refund_payment(); count += 1
PayNext(r) ==
    /\ req[r].pc = "pay_next"
    /\ LET rq == req[r]
           target == IF rq.op = "release_payments" THEN "RELEASED" ELSE "REFUNDED"
       IN  IF rq.todo = << >>
           THEN /\ req' = [req EXCEPT ![r] = Done(rq, 200)]
                /\ UNCHANGED escrows
           ELSE LET id == Head(rq.todo)
                IN  IF InvalidTransition(escrows[id], target)
                    THEN /\ req' = [req EXCEPT ![r] = Done(rq, 500)]
                         /\ UNCHANGED escrows
                    ELSE /\ escrows' =
                              [escrows EXCEPT ![id] =
                                  IF rq.op = "release_payments"
                                  THEN release_payment(@) ELSE refund_payment(@)]
                         /\ req' = [req EXCEPT ![r].todo = Tail(rq.todo),
                                               ![r].count = rq.count + 1]
    /\ UNCHANGED <<now, matches, vacancies, match_players, join_requests,
                   transactions, scorecards, player_stats, users, nreq, ground_checkins>>

release_payments(r) ==
    \/ \E selected \in SUBSET DOMAIN escrows :
          selected # {} /\ BeginAdminEscrow(r, "release_payments", selected)
    \/ req[r].op = "release_payments" /\ PayNext(r)

refund_payments(r) ==
    \/ \E selected \in SUBSET DOMAIN escrows :
          selected # {} /\ BeginAdminEscrow(r, "refund_payments", selected)
    \/ req[r].op = "refund_payments" /\ PayNext(r)

\* ------------------------------------------------------------- gps_checkin
\* Positions are metres north of a reference point on the venue's meridian;
\* the request's lng is the venue's.  Turf.gps_lat, with the location JSON
\* as fallback: the turf of m2 has neither.
NoCoordinate == -1
venue_lat(m) == IF m = "m1" THEN 100 ELSE NoCoordinate

\* The "lat" of a check-in body: absent, text that float() rejects, or a
\* position.
NoLat == [given |-> FALSE, numeric |-> FALSE, lat |-> 0]
TextLat == [given |-> TRUE, numeric |-> FALSE, lat |-> 0]
LatAt(x) == [given |-> TRUE, numeric |-> TRUE, lat |-> x]
\* 90 degrees of latitude in metres along the meridian (r * pi / 2).
MaxLatitude == 10007543
Lats == {NoLat, TextLat} \cup
        {LatAt(x) : x \in {50, 100, 149, 151, MaxLatitude + 1}}

\* _haversine_distance_m for two points on one meridian (dlon = 0): the arc
\* r * |dlat|, which in metres along the meridian is the difference.
haversine_distance_m(lat1, lat2) ==
    IF lat1 >= lat2 THEN lat1 - lat2 ELSE lat2 - lat1

\* is_success = distance_m <= 50.0
is_success(distance_m) == distance_m <= 50

\* A check-in that takes a venue without coordinates as it comes.
BeginGpsCheckinAnyVenue(r, u, m, f, body) ==
    /\ CanBegin(r)
    /\ nreq' = nreq + 1
    /\ LET rq == Request("gps_checkin", "gc_create", u) @@
                 [match |-> m, body |-> body,
                  ground_status |-> matches[m].ground_status]
           distance_m == haversine_distance_m(body.lat, venue_lat(m))
       IN  req' = [req EXCEPT ![r] =
                     IF ~get_object(m, f) THEN Done(rq, 404)
                     ELSE IF ~body.given \/ ~body.numeric THEN Done(rq, 400)
                     ELSE rq @@ [distance_m |-> distance_m,
                                 is_success |-> is_success(distance_m)]]
    /\ UNCHANGED <<now, tables>>

\* match = self.get_object(); the body and venue checks; the distance
BeginGpsCheckin(r, u, m, f, body) ==
    /\ CanBegin(r)
    /\ nreq' = nreq + 1
    /\ LET rq == Request("gps_checkin", "gc_create", u) @@
                 [match |-> m, body |-> body,
                  ground_status |-> matches[m].ground_status]
           distance_m == haversine_distance_m(body.lat, venue_lat(m))
       IN  req' = [req EXCEPT ![r] =
                     IF ~get_object(m, f) THEN Done(rq, 404)
                     ELSE IF ~body.given \/ ~body.numeric THEN Done(rq, 400)
                     ELSE IF venue_lat(m) = NoCoordinate THEN Done(rq, 400)
                     ELSE rq @@ [distance_m |-> distance_m,
                                 is_success |-> is_success(distance_m)]]
    /\ UNCHANGED <<now, tables>>

\* A log that keeps successful check-ins only.
GcCreateOnSuccess(r) ==
    /\ req[r].pc = "gc_create"
    /\ ground_checkins' =
          IF req[r].is_success
          THEN Append(ground_checkins,
                      [match |-> req[r].match, user |-> req[r].user,
                       user_lat |-> req[r].body.lat,
                       distance_meters |-> req[r].distance_m,
                       is_successful |-> req[r].is_success])
          ELSE ground_checkins
    /\ req' = [req EXCEPT ![r].pc = "gc_update_player"]
    /\ UNCHANGED <<now, matches, vacancies, escrows, match_players, join_requests,
                   transactions, scorecards, player_stats, users, nreq>>

\* checkin = GroundCheckin.objects.create(...)
GcCreate(r) ==
    /\ req[r].pc = "gc_create"
    /\ ground_checkins' =
          Append(ground_checkins,
                 [match |-> req[r].match, user |-> req[r].user,
                  user_lat |-> req[r].body.lat,
                  distance_meters |-> req[r].distance_m,
                  is_successful |-> req[r].is_success])
    /\ req' = [req EXCEPT ![r].pc = "gc_update_player"]
    /\ UNCHANGED <<now, matches, vacancies, escrows, match_players, join_requests,
                   transactions, scorecards, player_stats, users, nreq>>

\* MatchPlayer.objects.filter(match=match, player=user).update(
\*     has_checked_in=is_success, check_in_location=...)
\* and, with no ground status to write, the response.
GcUpdatePlayer(r) ==
    /\ req[r].pc = "gc_update_player"
    /\ LET rq == req[r]
       IN  /\ match_players' =
                {IF p.match = rq.match /\ p.player = rq.user
                 THEN [p EXCEPT !.has_checked_in = rq.is_success,
                                !.check_in_location = rq.body]
                 ELSE p : p \in match_players}
           /\ req' = [req EXCEPT ![r] =
                         IF rq.is_success /\ rq.ground_status # "SECURED"
                         THEN [rq EXCEPT !.pc = "gc_save_match"]
                         ELSE Done(rq, IF rq.is_success THEN 200 ELSE 400)]
    /\ UNCHANGED <<now, matches, vacancies, escrows, join_requests, transactions,
                   scorecards, player_stats, users, ground_checkins, nreq>>

\* match.ground_status = 'SECURED'; match.save(update_fields=['ground_status'])
GcSaveMatch(r) ==
    /\ req[r].pc = "gc_save_match"
    /\ matches' = [matches EXCEPT ![req[r].match].ground_status = "SECURED"]
    /\ req' = [req EXCEPT ![r] = Done(req[r], 200)]
    /\ UNCHANGED <<now, vacancies, escrows, match_players, join_requests,
                   transactions, scorecards, player_stats, users,
                   ground_checkins, nreq>>

gps_checkin(r, U, M) ==
    \/ \E u \in U, m \in M, f \in MatchStatuses, body \in Lats :
          BeginGpsCheckin(r, u, m, f, body)
    \/ GcCreate(r)
    \/ GcUpdatePlayer(r)
    \/ GcSaveMatch(r)

\* ----------------------------------------------------- reject_join_request
\* The row reject_join_request creates (views.py 536-542).
RefundTransaction(jr) ==
    [user |-> jr.player, match |-> jr.match, amount |-> jr.deposit_paid,
     type |-> "REFUND", is_successful |-> TRUE]

\* join_request = MatchJoinRequest.objects.get(id=request_id)
BeginReject(r, u, id) ==
    /\ CanBegin(r)
    /\ nreq' = nreq + 1
    /\ LET rq == Request("reject_join_request", "rj_check_captain", u) @@
                 [request_id |-> id]
       IN  req' = [req EXCEPT ![r] =
                     IF id \notin DOMAIN join_requests THEN Done(rq, 404)
                     ELSE rq @@ [join_request |-> join_requests[id]]]
    /\ UNCHANGED <<now, tables>>

\* A reject that asks nobody who is calling.
RjSkipCaptainCheck(r) ==
    /\ req[r].pc = "rj_check_captain"
    /\ req' = [req EXCEPT ![r].pc = "rj_save_request"]
    /\ UNCHANGED <<now, tables, nreq>>

\* if join_request.match.captain != request.user: 403
RjCheckCaptain(r) ==
    /\ req[r].pc = "rj_check_captain"
    /\ req' = [req EXCEPT ![r] =
                 IF captain(req[r].join_request.match) # req[r].user
                 THEN Done(req[r], 403)
                 ELSE [req[r] EXCEPT !.pc = "rj_save_request"]]
    /\ UNCHANGED <<now, tables, nreq>>

\* join_request.status = 'REJECTED'; join_request.save()
RjSaveRequest(r) ==
    /\ req[r].pc = "rj_save_request"
    /\ join_requests' = [join_requests EXCEPT ![req[r].request_id] =
                            [req[r].join_request EXCEPT !.status = "REJECTED"]]
    /\ req' = [req EXCEPT ![r].pc = "rj_create_transaction"]
    /\ UNCHANGED <<now, matches, vacancies, escrows, match_players, transactions,
                   scorecards, player_stats, users, ground_checkins, nreq>>

\* Transaction.objects.create(user=join_request.player, ..., type='REFUND'):
\* join_request.player is fetched here and the instance is kept.
RjCreateTransaction(r) ==
    /\ req[r].pc = "rj_create_transaction"
    /\ transactions' = Append(transactions, RefundTransaction(req[r].join_request))
    /\ req' = [req EXCEPT ![r] = [req[r] EXCEPT !.pc = "rj_save_player"] @@
                                 [player |-> users[req[r].join_request.player]]]
    /\ UNCHANGED <<now, matches, vacancies, escrows, match_players, join_requests,
                   scorecards, player_stats, users, ground_checkins, nreq>>

\* join_request.player.wallet_balance += deposit_paid; player.save(); 200
RjSavePlayer(r) ==
    /\ req[r].pc = "rj_save_player"
    /\ LET jr == req[r].join_request
       IN  users' = [users EXCEPT ![jr.player] =
                        [req[r].player EXCEPT !.wallet_balance = @ + jr.deposit_paid]]
    /\ req' = [req EXCEPT ![r] = Done(req[r], 200)]
    /\ UNCHANGED <<now, matches, vacancies, escrows, match_players, join_requests,
                   transactions, scorecards, player_stats, ground_checkins, nreq>>

reject_join_request(r, U) ==
    \/ \E u \in U, id \in 1..Len(join_requests) + 1 : BeginReject(r, u, id)
    \/ RjCheckCaptain(r)
    \/ RjSaveRequest(r)
    \/ RjCreateTransaction(r)
    \/ RjSavePlayer(r)

\* ------------------------------------------------------------------ destroy
\* ModelViewSet.destroy (DELETE /matches/{id}/): instance.delete() removes
\* the match and, in the same transaction, every row whose foreign key to it
\* is on_delete=CASCADE; Transaction.match is SET_NULL.
NoMatch == "none"
Kept(rows, m) == SelectSeq(rows, LAMBDA row : row.match # m)

destroy(r, u, m, f) ==
    /\ CanBegin(r)
    /\ nreq' = nreq + 1
    /\ LET rq == Request("destroy", "done", u) @@ [match |-> m]
       IN  IF ~get_object(m, f)
           THEN /\ req' = [req EXCEPT ![r] = Done(rq, 404)]
                /\ UNCHANGED tables
           ELSE /\ req' = [req EXCEPT ![r] = Done(rq, 204)]
                /\ matches' = [matches EXCEPT ![m].status = "DELETED"]
                /\ vacancies' = Kept(vacancies, m)
                /\ escrows' = Kept(escrows, m)
                /\ join_requests' = Kept(join_requests, m)
                /\ ground_checkins' = Kept(ground_checkins, m)
                /\ match_players' = {p \in match_players : p.match # m}
                /\ player_stats' = {st \in player_stats : st.match # m}
                /\ scorecards' = [scorecards EXCEPT ![m] = NoScorecard]
                /\ transactions' =
                      [i \in DOMAIN transactions |->
                          IF transactions[i].match = m
                          THEN [transactions[i] EXCEPT !.match = NoMatch]
                          ELSE transactions[i]]
                /\ UNCHANGED users
    /\ UNCHANGED now

\* ------------------------------------------------------- the environment
\* A request dies between two statements (the worker is killed, the
\* database connection drops): nothing is rolled back.
Fail(r) ==
    /\ Running(r)
    /\ req' = [req EXCEPT ![r] = Done(req[r], 500)]
    /\ UNCHANGED <<now, tables, nreq>>

\* The worker has sent the response and is free again.
Return(r) ==
    /\ req[r].pc = "done"
    /\ req' = [req EXCEPT ![r] = Idle]
    /\ UNCHANGED <<now, tables, nreq>>

\* Time passes.  The clock is read only when a request begins, so it is
\* enough to let it advance between requests.
Tick ==
    /\ Quiescent
    /\ now < MaxNow
    /\ now' = now + 1
    /\ UNCHANGED <<tables, req, nreq>>

\* --------------------------------------------------------- specifications
\* The vacancy flow, one request at a time, with interruptions.
NextJoin ==
    \/ join_vacancy(1, {"alice", "bob"}, Matches)
    \/ \E u \in {"captain", "alice"}, f \in {"PENDING", "COMPLETED"},
          c \in 0..MaxCount, cost \in {-1, 500} :
            add_vacancy(1, u, "m1", f, c, cost)
    \/ Fail(1)
    \/ Return(1)

SpecJoin == Init /\ [][NextJoin]_vars

\* The escrow life cycle, one request at a time: players join, the captain
\* submits the scorecard, the admin cancels matches and releases or refunds.
NextEscrow ==
    \/ join_vacancy(1, {"alice", "bob"}, Matches)
    \/ submit_scorecard(1, {"captain", "alice"}, Matches)
    \/ \E selected \in SUBSET Matches : selected # {} /\ cancel_matches(1, selected)
    \/ release_payments(1)
    \/ refund_payments(1)
    \/ Return(1)
    \/ Tick

SpecEscrow == Init /\ [][NextEscrow]_vars

\* Two players racing for the slots of one vacancy.
NextRace ==
    \E r \in Slots :
        \/ join_vacancy(r, {"alice", "bob"}, {"m1"})
        \/ Return(r)

SpecRace == Init /\ [][NextRace]_vars

\* Filling a match both ways at once: the captain approves join requests
\* while players take vacancies.
NextFill ==
    \E r \in Slots :
        \/ approve_join_request(r, {"captain"})
        \/ join_vacancy(r, {"alice", "bob"}, {"m1"})
        \/ Return(r)

SpecFill == InitFill /\ [][NextFill]_vars

\* Check-ins at the ground, one request at a time.
NextGps ==
    \/ join_vacancy(1, {"alice"}, {"m1"})
    \/ gps_checkin(1, {"alice", "bob"}, Matches)
    \/ Return(1)

SpecGps == InitGps /\ [][NextGps]_vars

\* The captain's operations, called by the captain and by a player.
NextCaptain ==
    \/ \E u \in {"captain", "alice"}, c \in 0..MaxCount :
          add_vacancy(1, u, "m1", "PENDING", c, 500)
    \/ submit_scorecard(1, {"captain", "alice"}, {"m1"})
    \/ approve_join_request(1, {"captain", "alice"})
    \/ reject_join_request(1, {"captain", "alice"})
    \/ Return(1)

SpecCaptain == InitFill /\ [][NextCaptain]_vars

\* Matches are deleted through the match endpoint while players join.
NextDestroy ==
    \/ join_vacancy(1, {"alice", "bob"}, Matches)
    \/ \E u \in {"captain", "bob"}, m \in Matches, f \in MatchStatuses :
          destroy(1, u, m, f)
    \/ Return(1)

SpecDestroy == Init /\ [][NextDestroy]_vars

\* The deposit flow, one request at a time: players ask to join, the
\* captain answers.
NextDeposit ==
    \/ join(1, {"alice", "bob", "captain"}, {"m1"})
    \/ approve_join_request(1, {"captain"})
    \/ reject_join_request(1, {"captain"})
    \/ Return(1)

SpecDeposit == Init /\ [][NextDeposit]_vars

\* Join requests racing each other and the captain's approvals.
NextRequests ==
    \E r \in Slots :
        \/ join(r, {"alice", "bob"}, {"m1"})
        \/ approve_join_request(r, {"captain"})
        \/ Return(r)

SpecRequests == Init /\ [][NextRequests]_vars

\* ------------------------------------------------------------- properties
Finished(r, op) == req[r].op = op /\ req[r].pc = "done"

EscrowsOf(m) == {i \in DOMAIN escrows : escrows[i].match = m}
HeldOfMatch(m) == {i \in EscrowsOf(m) : escrows[i].status = "HELD"}

RECURSIVE ClaimedUpTo(_, _)
\* The join_vacancy requests answered 201 on the vacancies 1..n of match m.
ClaimedUpTo(m, n) ==
    IF n = 0 THEN 0
    ELSE ClaimedUpTo(m, n - 1)
         + (IF vacancies[n].match = m THEN vacancies[n].claimed ELSE 0)

\* C1: on every vacancy, under every interleaving of join_vacancy requests,
\* the requests that succeed are at most the slots the vacancy had; two
\* requests for the last slot never both succeed.
C1_ClaimsWithinCapacity ==
    \A v \in DOMAIN vacancies : vacancies[v].claimed <= vacancies[v].capacity

\* C2: join_vacancy is all-or-nothing: a request that ends in anything but
\* 201 leaves the database as it found it, and between requests every match
\* has exactly one escrow per claimed slot.
C2_JoinAllOrNothing ==
    /\ \A r \in Slots :
          Finished(r, "join_vacancy") /\ req[r].code # 201 => DB = req[r].pre
    /\ Quiescent =>
          \A m \in Matches :
              Cardinality(EscrowsOf(m)) = ClaimedUpTo(m, Len(vacancies))

\* C3: there is at most one HELD escrow per (match, payer).
C3_OneHeldPerPayer ==
    \A m \in Matches, u \in Users :
        Cardinality({i \in HeldOfMatch(m) : escrows[i].payer = u}) <= 1

\* C4: an escrow that is RELEASED or REFUNDED keeps that status for ever (and
\* stays on record); a HELD one moves only to RELEASED or REFUNDED.
C4_TerminalEscrowsStay ==
    [][\A i \in DOMAIN escrows :
          /\ i \in DOMAIN escrows'
          /\ escrows[i].status # "HELD" => escrows'[i].status = escrows[i].status
          /\ escrows'[i].status \in {escrows[i].status, "RELEASED", "REFUNDED"}]_vars

\* A REFUNDED escrow has been through a scorecard submission of its match.
C4_RefundedSurvivesScorecard ==
    \E r \in Slots, i \in DOMAIN escrows :
        /\ Finished(r, "submit_scorecard") /\ req[r].code = 200
        /\ escrows[i].match = req[r].match
        /\ escrows[i].status = "REFUNDED"

\* C5: when cancel_matches has cancelled a match, none of that match's
\* escrows is still HELD.
C5_CancelRefundsHeld ==
    \A r \in Slots :
        Finished(r, "cancel_matches") =>
            \A m \in req[r].selected :
                matches[m].is_cancelled => HeldOfMatch(m) = {}

\* C6: after a successful submit_scorecard the match is COMPLETED, the escrows
\* of the match that were HELD are RELEASED, and every other escrow is as it
\* was.
C6_ScorecardReleasesHeld ==
    \A r \in Slots :
        Finished(r, "submit_scorecard") /\ req[r].code = 200 =>
            LET before == req[r].pre.escrows
                m == req[r].match
            IN  /\ matches[m].status = "COMPLETED"
                /\ DOMAIN escrows = DOMAIN before
                /\ \A i \in DOMAIN before :
                      escrows[i] =
                          IF before[i].match = m /\ before[i].status = "HELD"
                          THEN [before[i] EXCEPT !.status = "RELEASED"]
                          ELSE before[i]

\* A scorecard went through for a match with a HELD escrow while another
\* match had a HELD escrow of its own.
C6_ReleasedBesideOtherMatch ==
    \E r \in Slots :
        /\ Finished(r, "submit_scorecard") /\ req[r].code = 200
        /\ \E i, j \in DOMAIN req[r].pre.escrows :
              /\ req[r].pre.escrows[i].match = req[r].match
              /\ req[r].pre.escrows[i].status = "HELD"
              /\ req[r].pre.escrows[j].match # req[r].match
              /\ req[r].pre.escrows[j].status = "HELD"

\* C7: submit_scorecard is one atomic unit: a request that ends in anything
\* but 200 leaves scorecard, player stats, user totals, match status and
\* escrows as it found them.
C7_ScorecardAllOrNothing ==
    \A r \in Slots :
        Finished(r, "submit_scorecard") /\ req[r].code # 200 => DB = req[r].pre

\* C8: spots_filled never exceeds max_join_allowed.
C8_SpotsWithinCeiling ==
    \A m \in Matches : matches[m].spots_filled <= max_join_allowed(m)

\* C9: on every vacancy the successful claims never exceed the capacity it
\* was posted with, the remaining count never drops below 0, and the status
\* is OPEN exactly while a slot remains.
C9_VacancyInvariant ==
    \A v \in DOMAIN vacancies :
        /\ vacancies[v].claimed <= vacancies[v].capacity
        /\ vacancies[v].count_needed >= 0
        /\ vacancies[v].status = "OPEN" <=> vacancies[v].count_needed >= 1
        /\ vacancies[v].status = "FILLED" <=> vacancies[v].count_needed = 0

\* C10: a successful join_vacancy takes exactly one slot of its vacancy,
\* makes it FILLED exactly when that was the last slot, and adds exactly one
\* escrow: HELD, paid by the caller, for the vacancy's match, of the
\* vacancy's cost_per_head.  Other vacancies and escrows are untouched.
C10_JoinEffect ==
    \A r \in Slots :
        Finished(r, "join_vacancy") /\ req[r].code = 201 =>
            LET before == req[r].pre
                vid == req[r].vacancy_id
                old == before.vacancies[vid]
                n == Len(before.escrows)
            IN  /\ old.status = "OPEN" /\ old.count_needed >= 1
                /\ vacancies[vid].count_needed = old.count_needed - 1
                /\ vacancies[vid].status = "FILLED" <=> old.count_needed = 1
                /\ vacancies[vid].status \in {"OPEN", "FILLED"}
                /\ vacancies[vid].match = old.match
                /\ vacancies[vid].cost_per_head = old.cost_per_head
                /\ DOMAIN vacancies = DOMAIN before.vacancies
                /\ \A w \in DOMAIN vacancies : w # vid => vacancies[w] = before.vacancies[w]
                /\ Len(escrows) = n + 1
                /\ \A i \in 1..n : escrows[i] = before.escrows[i]
                /\ escrows[n + 1] = [match |-> old.match, payer |-> req[r].user,
                                     amount |-> old.cost_per_head, status |-> "HELD"]

\* A join took the last slot of a vacancy while an earlier escrow existed.
C10_LastSlotTaken ==
    \E r \in Slots :
        /\ Finished(r, "join_vacancy") /\ req[r].code = 201
        /\ vacancies[req[r].vacancy_id].status = "FILLED"
        /\ req[r].pre.escrows # << >>

\* C11: join_vacancy answers not-found for a vacancy id that does not exist
\* or belongs to another match, and refuses a vacancy that is not OPEN or
\* has no slot left; every refused request leaves the database as it was.
C11_JoinRefusals ==
    \A r \in Slots :
        Finished(r, "join_vacancy") =>
            LET before == req[r].pre.vacancies
                vid == req[r].vacancy_id
                present == /\ vid \in DOMAIN before
                           /\ before[vid].match = req[r].match
                claimable == /\ present
                             /\ before[vid].status = "OPEN"
                             /\ before[vid].count_needed >= 1
            IN  /\ vid # NoVacancy /\ ~present => req[r].code = 404
                /\ present /\ ~claimable => req[r].code \in {400, 404}
                /\ req[r].code = 201 => claimable
                /\ req[r].code # 201 => DB = req[r].pre

\* A join was refused on a FILLED vacancy of its match, with escrows on record.
C11_FilledVacancyRefused ==
    \E r \in Slots :
        /\ Finished(r, "join_vacancy") /\ req[r].code = 400
        /\ req[r].vacancy_id \in DOMAIN req[r].pre.vacancies
        /\ req[r].pre.vacancies[req[r].vacancy_id].match = req[r].match
        /\ req[r].pre.vacancies[req[r].vacancy_id].status = "FILLED"
        /\ req[r].pre.escrows # << >>

\* C12: repeating a release or a refund is harmless: the admin actions end
\* without error and leave every selected escrow that was already RELEASED
\* or REFUNDED as it was, and a scorecard submitted for a match with no HELD
\* escrow left changes no escrow.
C12_RepeatIsNoOp ==
    \A r \in Slots :
        /\ Finished(r, "release_payments") \/ Finished(r, "refund_payments") =>
              /\ req[r].code = 200
              /\ \A i \in req[r].selected :
                    req[r].pre.escrows[i].status # "HELD" =>
                        escrows[i] = req[r].pre.escrows[i]
        /\ Finished(r, "submit_scorecard") /\ req[r].code = 200 =>
              \A i \in DOMAIN req[r].pre.escrows :
                  \/ /\ req[r].pre.escrows[i].match = req[r].match
                     /\ req[r].pre.escrows[i].status = "HELD"
                  \/ escrows[i] = req[r].pre.escrows[i]

\* The admin released a selection holding an escrow that was RELEASED already.
C12_ReleasedTwice ==
    \E r \in Slots :
        /\ Finished(r, "release_payments")
        /\ \E i \in req[r].selected : req[r].pre.escrows[i].status = "RELEASED"

\* C13: releasing a REFUNDED escrow, or refunding a RELEASED one, is
\* answered with an error and leaves the escrow's status as it was.
C13_WrongTerminalRejected ==
    \A r \in Slots :
        /\ Finished(r, "release_payments") =>
              \A i \in req[r].selected :
                  req[r].pre.escrows[i].status = "REFUNDED" =>
                      req[r].code # 200 /\ escrows[i].status = "REFUNDED"
        /\ Finished(r, "refund_payments") =>
              \A i \in req[r].selected :
                  req[r].pre.escrows[i].status = "RELEASED" =>
                      req[r].code # 200 /\ escrows[i].status = "RELEASED"

\* C14: no request removes an escrow: whatever was on record when a request
\* began is on record, for the same match, payer and amount, when it ends.
C14_EscrowsKept ==
    \A r \in Slots :
        req[r].pc = "done" =>
            \A i \in DOMAIN req[r].pre.escrows :
                /\ i \in DOMAIN escrows
                /\ escrows[i].match = req[r].pre.escrows[i].match
                /\ escrows[i].payer = req[r].pre.escrows[i].payer
                /\ escrows[i].amount = req[r].pre.escrows[i].amount

\* C15: COMPLETED and cancelled are terminal: a scorecard never completes a
\* cancelled match and a COMPLETED match is never cancelled.
C15_TerminalStatuses ==
    \A r \in Slots :
        /\ Finished(r, "submit_scorecard") /\ req[r].code = 200 =>
              ~req[r].pre.matches[req[r].match].is_cancelled
        /\ Finished(r, "cancel_matches") =>
              \A m \in req[r].selected :
                  req[r].pre.matches[m].status = "COMPLETED" =>
                      matches[m] = req[r].pre.matches[m]

\* C16: a cancel attempt at or after a match's start time leaves that match
\* as it was, and no cancel attempt touches a match outside its selection,
\* an escrow or a vacancy.
C16_NoCancelFromStartOn ==
    \A r \in Slots :
        Finished(r, "cancel_matches") =>
            /\ \A m \in Matches :
                  m \notin req[r].selected \/ start_time(m) <= now =>
                      matches[m] = req[r].pre.matches[m]
            /\ escrows = req[r].pre.escrows
            /\ vacancies = req[r].pre.vacancies

\* A cancel attempt arrived exactly at the start time of a live match.
C16_CancelledAtStart ==
    \E r \in Slots, m \in Matches :
        /\ Finished(r, "cancel_matches")
        /\ m \in req[r].selected
        /\ start_time(m) = now
        /\ ~req[r].pre.matches[m].is_cancelled

\* C17: a cancelled match has no OPEN vacancy.
C17_CancelledHasNoOpenVacancy ==
    \A m \in Matches :
        matches[m].is_cancelled =>
            \A v \in DOMAIN vacancies :
                vacancies[v].match = m => vacancies[v].status # "OPEN"

\* C18: add_vacancy, submit_scorecard, approve_join_request and
\* reject_join_request called by someone who is not the match's captain are
\* refused (Forbidden, or not-found when the object is not there) and leave
\* the database as it was.
C18_CaptainOnly ==
    \A r \in Slots :
        /\ /\ Finished(r, "add_vacancy") \/ Finished(r, "submit_scorecard")
           /\ req[r].user # captain(req[r].match)
           => req[r].code \in {403, 404} /\ DB = req[r].pre
        /\ /\ Finished(r, "approve_join_request") \/ Finished(r, "reject_join_request")
           /\ req[r].request_id \in DOMAIN req[r].pre.join_requests
           /\ req[r].user # captain(req[r].pre.join_requests[req[r].request_id].match)
           => req[r].code = 403 /\ DB = req[r].pre

\* A player tried to reject a PENDING join request.
C18_PlayerRejects ==
    \E r \in Slots :
        /\ Finished(r, "reject_join_request")
        /\ req[r].user = "alice"
        /\ req[r].request_id \in DOMAIN req[r].pre.join_requests
        /\ req[r].pre.join_requests[req[r].request_id].status = "PENDING"

\* C19: a check-in succeeds exactly when the computed distance is strictly
\* less than 50 metres.
C19_SuccessIffWithin50 ==
    \A r \in Slots :
        Finished(r, "gps_checkin") /\ "distance_m" \in DOMAIN req[r] =>
            (req[r].code = 200 <=> req[r].distance_m < 50)

\* C20: a match whose ground status is BOOKED is still BOOKED after a
\* check-in.
C20_BookedStaysBooked ==
    \A r \in Slots :
        Finished(r, "gps_checkin") =>
            (req[r].pre.matches[req[r].match].ground_status = "BOOKED"
                => matches[req[r].match].ground_status = "BOOKED")

\* C21: every check-in for which a distance is computed appends exactly one
\* GroundCheckin holding the match, the user, the submitted position, the
\* distance and the outcome, on success and on failure alike, and leaves the
\* earlier records as they were; an attempt refused earlier logs nothing.
C21_EveryAttemptLogged ==
    \A r \in Slots :
        Finished(r, "gps_checkin") =>
            IF "distance_m" \in DOMAIN req[r]
            THEN ground_checkins =
                    Append(req[r].pre.ground_checkins,
                           [match |-> req[r].match, user |-> req[r].user,
                            user_lat |-> req[r].body.lat,
                            distance_meters |-> req[r].distance_m,
                            is_successful |-> (req[r].code = 200)])
            ELSE ground_checkins = req[r].pre.ground_checkins

\* A failed attempt was logged after an earlier attempt of the same user
\* for the same match.
C21_FailureLoggedAgain ==
    \E r \in Slots :
        /\ Finished(r, "gps_checkin") /\ req[r].code = 400
        /\ "distance_m" \in DOMAIN req[r]
        /\ \E i \in DOMAIN req[r].pre.ground_checkins :
              /\ req[r].pre.ground_checkins[i].match = req[r].match
              /\ req[r].pre.ground_checkins[i].user = req[r].user

\* C22: a check-in for a match whose venue has no coordinates is refused
\* and leaves the check-in log, the player flags and the ground status as
\* they were.
C22_NoVenueCoordinates ==
    \A r \in Slots :
        Finished(r, "gps_checkin") /\ venue_lat(req[r].match) = NoCoordinate =>
            /\ req[r].code \in {400, 404}
            /\ "distance_m" \notin DOMAIN req[r]
            /\ DB = req[r].pre

\* A well-formed position was sent for the match whose venue has none.
C22_VenueMissing ==
    \E r \in Slots :
        /\ Finished(r, "gps_checkin") /\ req[r].code = 400
        /\ venue_lat(req[r].match) = NoCoordinate
        /\ req[r].body.given /\ req[r].body.numeric

\* C23: a check-in whose latitude is out of range is refused: no distance
\* is computed for it and the database stays as it was.
C23_OutOfRangeRefused ==
    \A r \in Slots :
        /\ Finished(r, "gps_checkin")
        /\ req[r].body.given /\ req[r].body.numeric
        /\ req[r].body.lat > MaxLatitude \/ req[r].body.lat < -MaxLatitude
        => /\ req[r].code \in {400, 404}
           /\ "distance_m" \notin DOMAIN req[r]
           /\ DB = req[r].pre

C25_OneRequestPerPlayer ==
    /\ \A m \in Matches, u \in Users : Cardinality(RequestsOf(m, u)) <= 1
    /\ \A r \in Slots :
          /\ Finished(r, "join")
          /\ \E i \in DOMAIN req[r].pre.join_requests :
                /\ req[r].pre.join_requests[i].match = req[r].match
                /\ req[r].pre.join_requests[i].player = req[r].user
                /\ req[r].pre.join_requests[i].status \in {"PENDING", "APPROVED"}
          => req[r].code \in {400, 404, 500}

\* Two joins of one player for one match were in flight together and the
\* second was stopped at the insert.
C25_SecondInsertRefused ==
    \E r \in Slots :
        /\ Finished(r, "join") /\ req[r].code = 500
        /\ RequestsOf(req[r].match, req[r].user) # {}
        /\ \A i \in DOMAIN req[r].pre.join_requests :
              req[r].pre.join_requests[i].player # req[r].user

\* C26: between requests, spots_filled of every match is the number of its
\* MatchPlayer records.
C26_SpotsCountPlayers ==
    Quiescent =>
        \A m \in Matches :
            matches[m].spots_filled =
                Cardinality({p \in match_players : p.match = m})

\* C27: a join request is refunded at most once, and never when its deposit
\* was taken on approval.
C27_RefundOnce ==
    \A i \in DOMAIN join_requests :
        LET of(type) == {t \in DOMAIN transactions :
                            /\ transactions[t].type = type
                            /\ transactions[t].user = join_requests[i].player
                            /\ transactions[t].match = join_requests[i].match}
        IN  /\ Cardinality(of("REFUND")) <= 1
            /\ of("DEPOSIT") # {} => of("REFUND") = {}

RECURSIVE SumOver(_, _, _)
\* The sum of one column over a set of PlayerMatchStat rows.
SumOver(rows, column, acc) ==
    IF rows = {} THEN acc
    ELSE LET row == CHOOSE x \in rows : TRUE
         IN  SumOver(rows \ {row}, column, acc + row[column])

\* C28: between requests, every user's total_runs and total_wickets are the
\* sums over the user's PlayerMatchStat records and matches_played is their
\* number.
C28_TotalsMatchStats ==
    Quiescent =>
        \A u \in Users :
            LET mine == {st \in player_stats : st.user = u}
            IN  /\ users[u].total_runs = SumOver(mine, "runs", 0)
                /\ users[u].total_wickets = SumOver(mine, "wickets", 0)
                /\ users[u].matches_played = Cardinality(mine)

\* C29: a COMPLETED match has no HELD escrow.
C29_CompletedHasNoHeld ==
    \A m \in Matches :
        matches[m].status = "COMPLETED" => HeldOfMatch(m) = {}

\* C30: a failed check-in changes nothing but the check-in log: player
\* flags, recorded locations and ground status stay as they were.
C30_FailureOnlyLogs ==
    \A r \in Slots :
        Finished(r, "gps_checkin") /\ req[r].code # 200 =>
            /\ match_players = req[r].pre.match_players
            /\ matches = req[r].pre.matches

====
